---- MODULE Spec2Model ----
(***************************************************************************)
(* Routing simulation of src/Experiment_06/calculator.js: class Packet,    *)
(* class Router (addNeighbor, receiveRoutingUpdate, advertiseRoutes,       *)
(* receivePacket, getNetworkPrefix) and the driver runSimulation.          *)
(*                                                                         *)
(* A JavaScript Map is a sequence of [key, val] entries in insertion       *)
(* order.  An IP string "a.b.c.d" is the sequence of its octets; a prefix  *)
(* string "a.b.c.0/24" is [octets |-> <<a, b, c, 0>>, mask |-> 24].        *)
(* Every handler runs to completion as one step (the program is            *)
(* synchronous); the console lines it prints are kept in `log`.            *)
(***************************************************************************)
EXTENDS Integers, Sequences, FiniteSets, TLC

VARIABLES routingTable, neighbors, packet, log, driver, pc

vars == <<routingTable, neighbors, packet, log, driver, pc>>

(***************************************************************************)
(* Bounds of the exploration and program constants.                        *)
(***************************************************************************)
\* an arbitrary driver registers a neighbor while fewer registrations exist
MaxLinks == 2
\* an arbitrary driver seeds a route while fewer routing entries exist
MaxEntries == 2
\* an arbitrary driver hands a packet to a router while fewer receivePacket
\* calls have been made on it
MaxReuse == 2

\* Packet.constructor: this.ttl = 32
InitialTtl == 32
\* getNetworkPrefix: the '/24' suffix
MaskLen == 24
\* receiveRoutingUpdate: metric = 1
DefaultMetric == 1

Routers == {"R1", "R2", "R3"}

\* next-hop names a driver may pass
HopNames == Routers

Metrics == {DefaultMetric, 7}

\* addresses an arbitrary driver puts in a packet
Addresses == {<<192, 168, 1, 10>>, <<192, 168, 3, 15>>}

Sources == {<<192, 168, 1, 10>>}

Contents == {"Hello World!"}

(***************************************************************************)
(* Map: has / get / set with insertion order.                              *)
(***************************************************************************)
MapHas(m, k) == \E i \in 1..Len(m) : m[i].key = k

MapGet(m, k) == m[CHOOSE i \in 1..Len(m) : m[i].key = k].val

MapSet(m, k, v) ==
    IF MapHas(m, k)
    THEN [i \in 1..Len(m) |-> IF m[i].key = k THEN [key |-> k, val |-> v] ELSE m[i]]
    ELSE Append(m, [key |-> k, val |-> v])

MapKeys(m) == {m[i].key : i \in 1..Len(m)}

(***************************************************************************)
(* Packet                                                                  *)
(***************************************************************************)
\* variant: a packet starts with one hop less
PacketShortTtl(sourceIp, destinationIp, content) ==
    [sourceIp |-> sourceIp, destinationIp |-> destinationIp,
     content |-> content, ttl |-> InitialTtl - 1]

Packet(sourceIp, destinationIp, content) ==
    [sourceIp |-> sourceIp, destinationIp |-> destinationIp,
     content |-> content, ttl |-> InitialTtl]

(***************************************************************************)
(* Router.getNetworkPrefix: ip.split('.').slice(0, 3).join('.') + '.0/24'  *)
(***************************************************************************)
\* variant: the address is cut after two octets
getNetworkPrefixTwoOctets(ip) ==
    [octets |-> SubSeq(ip, 1, IF Len(ip) < 2 THEN Len(ip) ELSE 2) \o <<0>>,
     mask   |-> MaskLen]

getNetworkPrefix(ip) ==
    [octets |-> SubSeq(ip, 1, IF Len(ip) < 3 THEN Len(ip) ELSE 3) \o <<0>>,
     mask |-> MaskLen]

\* the prefix an arbitrary driver seeds (runSimulation seeds its own three)
SeedPrefixes == {getNetworkPrefix(<<192, 168, 3, 15>>)}

(***************************************************************************)
(* Router.addNeighbor                                                      *)
(***************************************************************************)
AddNeighborMap(nbs, neighborRouter) == MapSet(nbs, neighborRouter, neighborRouter)

\* variant: the link is registered in both directions
addNeighborBothWays(r, neighborRouter) ==
    /\ neighbors' = [o \in Routers |->
           IF o = r THEN AddNeighborMap(neighbors[o], neighborRouter)
           ELSE IF o = neighborRouter THEN AddNeighborMap(neighbors[o], r)
           ELSE neighbors[o]]
    /\ log' = <<[type |-> "INFO", router |-> r, neighbor |-> neighborRouter]>>
    /\ UNCHANGED <<routingTable, packet>>

addNeighbor(r, neighborRouter) ==
    /\ neighbors' = [neighbors EXCEPT ![r] = AddNeighborMap(@, neighborRouter)]
    /\ log' = <<[type |-> "INFO", router |-> r, neighbor |-> neighborRouter]>>
    /\ UNCHANGED <<routingTable, packet>>

(***************************************************************************)
(* Router.receiveRoutingUpdate                                             *)
(***************************************************************************)
\* variant: an existing route is kept unless the new metric is the default one
UpdateTableByMetric(table, networkPrefix, nextHop, metric) ==
    IF MapHas(table, networkPrefix) /\ metric > DefaultMetric
    THEN table
    ELSE MapSet(table, networkPrefix, nextHop)

\* variant: every update adds an entry, an earlier one for the prefix stays
UpdateTableAppend(table, networkPrefix, nextHop, metric) ==
    Append(table, [key |-> networkPrefix, val |-> nextHop])

\* variant: a table that already holds two routes takes no new prefix
UpdateTableCapped(table, networkPrefix, nextHop, metric) ==
    IF ~MapHas(table, networkPrefix) /\ Len(table) >= 2
    THEN table
    ELSE MapSet(table, networkPrefix, nextHop)

UpdateTable(table, networkPrefix, nextHop, metric) ==
    MapSet(table, networkPrefix, nextHop)

UpdateEvent(r, networkPrefix, nextHop) ==
    [type |-> "UPDATE", router |-> r, prefix |-> networkPrefix, via |-> nextHop]

receiveRoutingUpdate(r, networkPrefix, nextHop, metric) ==
    /\ routingTable' =
           [routingTable EXCEPT ![r] = UpdateTable(@, networkPrefix, nextHop, metric)]
    /\ log' = <<UpdateEvent(r, networkPrefix, nextHop)>>
    /\ UNCHANGED <<neighbors, packet>>

(***************************************************************************)
(* Router.advertiseRoutes.  st = [rt, log] is threaded through both loops; *)
(* the outer loop reads the advertiser's table as it is when each entry is *)
(* reached (a Map iterator is live).                                       *)
(***************************************************************************)
\* variant: no split horizon
SplitHorizonOff(neighborName, nextHop) == TRUE

SplitHorizonAllows(neighborName, nextHop) == neighborName # nextHop

\* variant: the advertiser passes its own next hop on instead of its name
AdvertisedHopPassedOn(r, nextHop) == nextHop

AdvertisedHop(r, nextHop) == r

\* variant: the update reaches every router but the advertiser
SendUpdateBroadcast(st, neighbor, prefix, advertiser) ==
    [rt  |-> [o \in Routers |->
                 IF o = advertiser THEN st.rt[o]
                 ELSE UpdateTable(st.rt[o], prefix, advertiser, DefaultMetric)],
     log |-> Append(st.log, UpdateEvent(neighbor, prefix, advertiser))]

SendUpdate(st, neighbor, prefix, advertiser) ==
    [rt  |-> [st.rt EXCEPT ![neighbor] = UpdateTable(@, prefix, advertiser, DefaultMetric)],
     log |-> Append(st.log, UpdateEvent(neighbor, prefix, advertiser))]

RECURSIVE AdvertiseToNeighbors(_, _, _, _, _)
AdvertiseToNeighbors(st, r, prefix, nextHop, j) ==
    IF j > Len(neighbors[r]) THEN st
    ELSE LET neighborName == neighbors[r][j].key
             neighbor     == neighbors[r][j].val
         IN  AdvertiseToNeighbors(
                 IF SplitHorizonAllows(neighborName, nextHop)
                 THEN SendUpdate(st, neighbor, prefix, AdvertisedHop(r, nextHop))
                 ELSE st,
                 r, prefix, nextHop, j + 1)

RECURSIVE AdvertiseEntries(_, _, _)
AdvertiseEntries(st, r, i) ==
    IF i > Len(st.rt[r]) THEN st
    ELSE AdvertiseEntries(
             AdvertiseToNeighbors(st, r, st.rt[r][i].key, st.rt[r][i].val, 1),
             r, i + 1)

\* The two loops of advertiseRoutes walked in a given order: nOrder and
\* pOrder are permutations of the positions of the neighbor map and of the
\* routing table; the identity orders are the Map's insertion order.
RECURSIVE AdvertiseToNeighborsIn(_, _, _, _, _, _)
AdvertiseToNeighborsIn(st, r, prefix, nextHop, nOrder, j) ==
    IF j > Len(nOrder) THEN st
    ELSE LET neighborName == neighbors[r][nOrder[j]].key
             neighbor     == neighbors[r][nOrder[j]].val
         IN  AdvertiseToNeighborsIn(
                 IF SplitHorizonAllows(neighborName, nextHop)
                 THEN SendUpdate(st, neighbor, prefix, AdvertisedHop(r, nextHop))
                 ELSE st,
                 r, prefix, nextHop, nOrder, j + 1)

RECURSIVE AdvertiseEntriesIn(_, _, _, _, _)
AdvertiseEntriesIn(st, r, pOrder, nOrder, i) ==
    IF i > Len(pOrder) THEN st
    ELSE AdvertiseEntriesIn(
             AdvertiseToNeighborsIn(st, r, st.rt[r][pOrder[i]].key,
                                    st.rt[r][pOrder[i]].val, nOrder, 1),
             r, pOrder, nOrder, i + 1)

AdvertiseResult(r) ==
    AdvertiseEntries([rt |-> routingTable,
                      log |-> <<[type |-> "ADVERTISE", router |-> r]>>], r, 1)

advertiseRoutes(r) ==
    /\ routingTable' = AdvertiseResult(r).rt
    /\ log' = AdvertiseResult(r).log
    /\ UNCHANGED <<neighbors, packet>>

(***************************************************************************)
(* Router.receivePacket.  The packet events carry the packet's ttl at the  *)
(* moment the line is printed (the printed text itself omits it).          *)
(***************************************************************************)
\* variant: the hop counter goes down by two
DecrementTtlByTwo(p) == [p EXCEPT !.ttl = @ - 2]

DecrementTtl(p) == [p EXCEPT !.ttl = @ - 1]

\* variant: the expiry test is off by one (ttl < 0)
TtlExpiredBelowZero(p) == p.ttl < 0

TtlExpired(p) == p.ttl <= 0

HasRoute(r, destinationNetwork) == MapHas(routingTable[r], destinationNetwork)

NextHopRouterName(r, destinationNetwork) == MapGet(routingTable[r], destinationNetwork)

IsNeighbor(r, nextHopRouterName) == MapHas(neighbors[r], nextHopRouterName)

\* variant: the packet goes to the first registered neighbor
NextHopRouterFirst(r, nextHopRouterName) == neighbors[r][1].val

NextHopRouter(r, nextHopRouterName) == MapGet(neighbors[r], nextHopRouterName)

ReceiveEvent(r, p) == [type |-> "RECEIVE", router |-> r, ttl |-> p.ttl]

\* the outcomes of one invocation: [packet, log, next], where next holds the
\* router whose receivePacket is called next, if any
DropTtl(r, p, lg) ==
    [packet |-> p, next |-> <<>>,
     log |-> Append(lg, [type |-> "DROP_TTL", router |-> r, ttl |-> p.ttl])]

Forward(r, nextHopRouter, p, lg) ==
    [packet |-> p, next |-> <<nextHopRouter>>,
     log |-> Append(lg, [type |-> "FORWARD", router |-> r, to |-> nextHopRouter,
                         ttl |-> p.ttl])]

Deliver(r, p, lg) ==
    [packet |-> p, next |-> <<>>,
     log |-> Append(lg, [type |-> "DELIVER", router |-> r, ttl |-> p.ttl])]

\* variant: a packet without a route is reported delivered
DropNoRouteAsDelivery(r, p, lg, destinationNetwork) ==
    [packet |-> p, next |-> <<>>,
     log |-> Append(lg, [type |-> "DELIVER", router |-> r, ttl |-> p.ttl])]

\* the line names the prefix it found no route to
DropNoRoute(r, p, lg, destinationNetwork) ==
    [packet |-> p, next |-> <<>>,
     log |-> Append(lg, [type |-> "DROP_NOROUTE", router |-> r,
                         prefix |-> destinationNetwork, ttl |-> p.ttl])]

\* the statements of one invocation, up to its call of the next hop
ReceiveStep(r, p, lg) ==
    LET lg1 == Append(lg, ReceiveEvent(r, p))
        p1  == DecrementTtl(p)
        destinationNetwork == getNetworkPrefix(p1.destinationIp)
    IN  IF TtlExpired(p1) THEN DropTtl(r, p1, lg1)
        ELSE IF HasRoute(r, destinationNetwork)
        THEN LET nextHopRouterName == NextHopRouterName(r, destinationNetwork)
             IN  IF IsNeighbor(r, nextHopRouterName)
                 THEN Forward(r, NextHopRouter(r, nextHopRouterName), p1, lg1)
                 ELSE Deliver(r, p1, lg1)
        ELSE DropNoRoute(r, p1, lg1, destinationNetwork)

\* nextHopRouter.receivePacket(packet) is the last statement of its branch
RECURSIVE ReceivePacketAt(_, _, _)
ReceivePacketAt(r, p, lg) ==
    LET res == ReceiveStep(r, p, lg)
    IN  IF res.next = <<>> THEN res
        ELSE ReceivePacketAt(res.next[1], res.packet, res.log)

\* variant: the entry router records a route back to the packet's source
receivePacketLearning(r) ==
    /\ packet # <<>>
    /\ LET res == ReceivePacketAt(r, packet[1], <<>>)
       IN  /\ packet' = <<res.packet>>
           /\ log' = res.log
    /\ routingTable' = [routingTable EXCEPT
           ![r] = UpdateTable(@, getNetworkPrefix(packet[1].sourceIp), r, DefaultMetric)]
    /\ UNCHANGED neighbors

receivePacket(r) ==
    /\ packet # <<>>
    /\ LET res == ReceivePacketAt(r, packet[1], <<>>)
       IN  /\ packet' = <<res.packet>>
           /\ log' = res.log
    /\ UNCHANGED <<routingTable, neighbors>>

\* const myPacket = new Packet(...)
newPacket(sourceIp, destinationIp, content) ==
    /\ packet' = <<Packet(sourceIp, destinationIp, content)>>
    /\ log' = <<[type |-> "START", src |-> sourceIp, dst |-> destinationIp]>>
    /\ UNCHANGED <<routingTable, neighbors>>

(***************************************************************************)
(* runSimulation: the calls the driver makes, in order.                    *)
(***************************************************************************)
Lan(n) == [octets |-> <<192, 168, n, 0>>, mask |-> MaskLen]

Script ==
    << [op |-> "addNeighbor", r |-> "R1", n |-> "R2"],
       [op |-> "addNeighbor", r |-> "R2", n |-> "R1"],
       [op |-> "addNeighbor", r |-> "R2", n |-> "R3"],
       [op |-> "addNeighbor", r |-> "R3", n |-> "R2"],
       [op |-> "receiveRoutingUpdate", r |-> "R1", prefix |-> Lan(1), nextHop |-> "R1"],
       [op |-> "receiveRoutingUpdate", r |-> "R2", prefix |-> Lan(2), nextHop |-> "R2"],
       [op |-> "receiveRoutingUpdate", r |-> "R3", prefix |-> Lan(3), nextHop |-> "R3"],
       [op |-> "advertiseRoutes", r |-> "R1"],
       [op |-> "advertiseRoutes", r |-> "R3"],
       [op |-> "advertiseRoutes", r |-> "R2"],
       [op |-> "newPacket", src |-> <<192, 168, 1, 10>>, dst |-> <<192, 168, 3, 15>>,
        content |-> "Hello World!"],
       [op |-> "receivePacket", r |-> "R1"] >>

Do(call) ==
    CASE call.op = "addNeighbor" -> addNeighbor(call.r, call.n)
      [] call.op = "receiveRoutingUpdate" ->
             receiveRoutingUpdate(call.r, call.prefix, call.nextHop, DefaultMetric)
      [] call.op = "advertiseRoutes" -> advertiseRoutes(call.r)
      [] call.op = "newPacket" -> newPacket(call.src, call.dst, call.content)
      [] call.op = "receivePacket" -> receivePacket(call.r)

runSimulation ==
    /\ driver = "runSimulation"
    /\ pc < Len(Script)
    /\ Do(Script[pc + 1])
    /\ pc' = pc + 1
    /\ UNCHANGED driver

(***************************************************************************)
(* An arbitrary driver: the public operations in any order.                *)
(***************************************************************************)
RECURSIVE SumLen(_, _)
SumLen(f, S) ==
    IF S = {} THEN 0
    ELSE LET x == CHOOSE y \in S : TRUE IN Len(f[x]) + SumLen(f, S \ {x})

Free == driver = "any" /\ UNCHANGED <<driver, pc>>

\* the driver sets the network up before it sends packets
Setup == Free /\ packet = <<>>

CallAddNeighbor ==
    \E r \in Routers, n \in Routers :
        /\ Setup
        /\ SumLen(neighbors, Routers) < MaxLinks
        /\ addNeighbor(r, n)

CallReceiveRoutingUpdate ==
    \E r \in Routers, p \in SeedPrefixes, h \in HopNames, m \in Metrics :
        /\ Setup
        /\ SumLen(routingTable, Routers) < MaxEntries
        /\ receiveRoutingUpdate(r, p, h, m)

CallAdvertiseRoutes ==
    \E r \in Routers : Setup /\ advertiseRoutes(r)

CallNewPacket ==
    \E s \in Sources, d \in Addresses, c \in Contents : Free /\ newPacket(s, d, c)

CallReceivePacket ==
    \E r \in Routers :
        /\ Free
        /\ packet # <<>>
        /\ InitialTtl - packet[1].ttl < MaxReuse
        /\ receivePacket(r)

Init ==
    /\ routingTable = [r \in Routers |-> <<>>]
    /\ neighbors = [r \in Routers |-> <<>>]
    /\ packet = <<>>
    /\ log = <<>>
    /\ driver \in {"any", "runSimulation"}
    /\ pc = 0

Next ==
    \/ CallAddNeighbor
    \/ CallReceiveRoutingUpdate
    \/ CallAdvertiseRoutes
    \/ CallNewPacket
    \/ CallReceivePacket
    \/ runSimulation

Spec == Init /\ [][Next]_vars

(***************************************************************************)
(* Reading the log of the last operation.                                  *)
(***************************************************************************)
IsJourney(lg) == lg # <<>> /\ lg[1].type = "RECEIVE"

IsAdvertise(lg) == lg # <<>> /\ lg[1].type = "ADVERTISE"

IsStart(lg) == lg # <<>> /\ lg[1].type = "START"

IsDirectUpdate(lg) == Len(lg) = 1 /\ lg[1].type = "UPDATE"

CountType(lg, t) == Cardinality({i \in 1..Len(lg) : lg[i].type = t})

\* RECEIVE lines printed before line i
ReceivesBefore(lg, i) == Cardinality({k \in 1..(i - 1) : lg[k].type = "RECEIVE"})

Terminal == {"DELIVER", "DROP_NOROUTE", "DROP_TTL"}

\* the routers that received the packet, in order
RECURSIVE Visited(_)
Visited(lg) ==
    IF lg = <<>> THEN <<>>
    ELSE IF lg[1].type = "RECEIVE" THEN <<lg[1].router>> \o Visited(Tail(lg))
    ELSE Visited(Tail(lg))

DestinationNetwork == getNetworkPrefix(packet[1].destinationIp)

(***************************************************************************)
(* C1.  A packet created with ttl = 32 and handed to receivePacket ends in *)
(* exactly one of Delivered, DroppedNoRoute, DroppedTTL after at most 32   *)
(* receivePacket invocations (at most 31 forwards), forwarding cycles in   *)
(* the routing tables included.                                            *)
(***************************************************************************)
C1_BoundedJourney ==
    (IsJourney(log) /\ log[1].ttl = 32) =>
        /\ log[Len(log)].type \in Terminal
        /\ \A i \in 1..(Len(log) - 1) : log[i].type \notin Terminal
        /\ CountType(log, "RECEIVE") <= 32
        /\ CountType(log, "FORWARD") <= 31

\* a fresh packet caught in a forwarding cycle used all 32 invocations
C1_Witness ==
    /\ IsJourney(log) /\ log[1].ttl = 32
    /\ CountType(log, "RECEIVE") = 32
    /\ CountType(log, "FORWARD") = 31
    /\ log[Len(log)].type = "DROP_TTL"

(***************************************************************************)
(* C2.  TTL accounting: a new packet has ttl 32; a receivePacket call      *)
(* leaves the packet's ttl at its ttl on hand-over minus the number of     *)
(* receivePacket invocations of the call, each invocation taking exactly   *)
(* 1 (every line printed on the way shows the hand-over ttl minus the      *)
(* invocations completed so far); no other operation changes the packet,   *)
(* so the ttl never goes up and is never reset.                            *)
(***************************************************************************)
C2_Step ==
    /\ IsStart(log') => packet'[1].ttl = 32
    /\ IsJourney(log') =>
           /\ packet # <<>> /\ packet' # <<>>
           /\ packet'[1].ttl = packet[1].ttl - CountType(log', "RECEIVE")
           /\ \A i \in 1..Len(log') :
                  log'[i].ttl = packet[1].ttl - ReceivesBefore(log', i)
           /\ packet'[1].ttl < packet[1].ttl
    /\ (~IsStart(log') /\ ~IsJourney(log')) => packet' = packet

C2_TtlAccounting == [][C2_Step]_vars

\* a packet handed in a second time (ttl 31) went through three routers
C2_Witness ==
    /\ IsJourney(log) /\ log[1].ttl = 31
    /\ CountType(log, "RECEIVE") = 3
    /\ packet[1].ttl = 28

(***************************************************************************)
(* C3.  Split horizon: in an advertiseRoutes() call on router R, every     *)
(* update sent is for a prefix P of R's table, and none goes to the        *)
(* neighbor whose id is the next hop R had recorded for P at the call.     *)
(***************************************************************************)
C3_Step ==
    IsAdvertise(log') =>
        LET r == log'[1].router
        IN  \A i \in 2..Len(log') :
                /\ log'[i].type = "UPDATE"
                /\ MapHas(routingTable[r], log'[i].prefix)
                /\ log'[i].router # MapGet(routingTable[r], log'[i].prefix)

C3_SplitHorizon == [][C3_Step]_vars

\* R advertised a route learned from one registered neighbor to another one
C3_Witness ==
    /\ IsAdvertise(log)
    /\ LET r == log[1].router
       IN  \E i \in 1..Len(routingTable[r]) :
               /\ routingTable[r][i].val # r
               /\ MapHas(neighbors[r], routingTable[r][i].val)
               /\ \E k \in 2..Len(log) : log[k].prefix = routingTable[r][i].key

(***************************************************************************)
(* C4.  After R.advertiseRoutes() returns, for every prefix P that was in  *)
(* R's table at the call and every registered neighbor N of R whose id     *)
(* differs from the next hop R had recorded for P, N's table maps P to R's *)
(* id (not to R's next hop).                                               *)
(***************************************************************************)
C4_Step ==
    IsAdvertise(log') =>
        LET r == log'[1].router
        IN  \A i \in 1..Len(routingTable[r]), j \in 1..Len(neighbors[r]) :
                LET P == routingTable[r][i].key
                    N == neighbors[r][j].key
                IN  N # routingTable[r][i].val =>
                        /\ MapHas(routingTable'[N], P)
                        /\ MapGet(routingTable'[N], P) = r

C4_AdvertisePostcondition == [][C4_Step]_vars

\* a neighbor learned from R a prefix that R itself reaches through another router
C4_Witness ==
    /\ IsAdvertise(log)
    /\ LET r == log[1].router
       IN  \E k \in 2..Len(log) :
               /\ log[k].router # r
               /\ MapGet(routingTable[r], log[k].prefix) # r
               /\ MapGet(routingTable[log[k].router], log[k].prefix) = r

(***************************************************************************)
(* C5.  receiveRoutingUpdate(P, A, metric) leaves the receiving router's   *)
(* table with exactly one entry for P, whose next hop is A, whatever entry *)
(* P had before and whatever the metric, and leaves the entries of all     *)
(* other prefixes as they were.  Checked on every step that makes exactly  *)
(* one receiveRoutingUpdate call: a direct call, or an advertiseRoutes     *)
(* call that sends one update.                                             *)
(***************************************************************************)
EntriesFor(table, P) == {i \in 1..Len(table) : table[i].key = P}

UpdatePost(before, after, P, A) ==
    /\ Cardinality(EntriesFor(after, P)) = 1
    /\ MapGet(after, P) = A
    /\ MapKeys(after) = MapKeys(before) \cup {P}
    /\ \A Q \in MapKeys(before) \ {P} :
           /\ Cardinality(EntriesFor(after, Q)) = 1
           /\ MapGet(after, Q) = MapGet(before, Q)

C5_Step ==
    CountType(log', "UPDATE") = 1 =>
        LET u == log'[Len(log')]
        IN  /\ UpdatePost(routingTable[u.router], routingTable'[u.router],
                          u.prefix, u.via)
            /\ \A o \in Routers \ {u.router} : routingTable'[o] = routingTable[o]
            /\ \A m \in Metrics :
                   UpdateTable(routingTable[u.router], u.prefix, u.via, m)
                       = routingTable'[u.router]

C5_LastWriteWins == [][C5_Step]_vars

\* a direct update set a router's entry while another router holds a
\* different next hop for the same prefix
C5_Witness ==
    /\ IsDirectUpdate(log)
    /\ LET r == log[1].router
           P == log[1].prefix
       IN  /\ MapGet(routingTable[r], P) = log[1].via
           /\ \E o \in Routers \ {r} :
                  MapHas(routingTable[o], P) /\ MapGet(routingTable[o], P) # log[1].via

(***************************************************************************)
(* C6.  One receivePacket call at router R whose ttl is still > 0 after    *)
(* the decrement: without an entry for the destination's /24 prefix the    *)
(* packet is dropped (no route); with an entry whose next hop is a         *)
(* registered neighbor of R it is handed to that neighbor's receivePacket  *)
(* and to no other router; with an entry whose next hop is no registered   *)
(* neighbor it is delivered locally at R and not forwarded.                *)
(***************************************************************************)
C6_Decision(i) ==
    LET R == log[i].router
        next == log[i + 1]
    IN  IF ~MapHas(routingTable[R], DestinationNetwork)
        THEN next.type = "DROP_NOROUTE" /\ next.router = R /\ Len(log) = i + 1
        ELSE LET hop == MapGet(routingTable[R], DestinationNetwork)
             IN  IF MapHas(neighbors[R], hop)
                 THEN /\ next.type = "FORWARD" /\ next.router = R /\ next.to = hop
                      /\ Len(log) >= i + 2
                      /\ log[i + 2].type = "RECEIVE" /\ log[i + 2].router = hop
                 ELSE next.type = "DELIVER" /\ next.router = R /\ Len(log) = i + 1

C6_ForwardingDecision ==
    IsJourney(log) =>
        \A i \in 1..Len(log) :
            (log[i].type = "RECEIVE" /\ log[i].ttl - 1 > 0) => C6_Decision(i)

\* a packet was forwarded by a router with two registered neighbors to the
\* second of them, and delivered there because the entry names no neighbor
C6_Witness ==
    /\ IsJourney(log)
    /\ Len(neighbors[log[1].router]) = 2
    /\ log[2].type = "FORWARD"
    /\ log[2].to = neighbors[log[1].router][2].key
    /\ log[Len(log)].type = "DELIVER"

(***************************************************************************)
(* C7.  As claimed: a packet is dropped if and only if its ttl is 0 or     *)
(* below after a decrement in receivePacket.                               *)
(***************************************************************************)
Dropped(e) == e.type \in {"DROP_TTL", "DROP_NOROUTE"}

C7_DroppedIffTtlExpired ==
    IsJourney(log) => (Dropped(log[Len(log)]) <=> packet[1].ttl <= 0)

(***************************************************************************)
(* C7, amended.  A receivePacket invocation drops the packet for TTL       *)
(* expiry if and only if the ttl is 0 or below after its decrement, and    *)
(* that ends the journey; an invocation that leaves the ttl above 0 drops  *)
(* the packet if and only if the router has no route for the packet's      *)
(* destination prefix (the no-route drop), which also ends the journey.    *)
(***************************************************************************)
C7_TtlDropIffExpired ==
    IsJourney(log) =>
        /\ \A i \in 1..(Len(log) - 1) :
               log[i].type = "RECEIVE" =>
                   /\ (log[i].ttl - 1 <= 0) <=> (log[i + 1].type = "DROP_TTL")
                   /\ log[i + 1].type = "DROP_TTL" =>
                          /\ Len(log) = i + 1
                          /\ log[i + 1].router = log[i].router
                   /\ log[i].ttl - 1 > 0 =>
                          /\ Dropped(log[i + 1]) <=>
                                 ~MapHas(routingTable[log[i].router], DestinationNetwork)
                          /\ Dropped(log[i + 1]) =>
                                 /\ log[i + 1].type = "DROP_NOROUTE"
                                 /\ log[i + 1].router = log[i].router
                                 /\ log[i + 1].ttl = log[i].ttl - 1
                                 /\ Len(log) = i + 1
        /\ log[Len(log)].type # "RECEIVE"
        /\ \A i \in 2..Len(log) : Dropped(log[i]) => log[i - 1].type = "RECEIVE"
        /\ log[Len(log)].type = "DROP_TTL" <=> packet[1].ttl <= 0
        /\ log[Len(log)].type = "DROP_NOROUTE" =>
               /\ packet[1].ttl > 0
               /\ ~MapHas(routingTable[log[Len(log)].router], DestinationNetwork)

\* a packet was dropped when its ttl reached 0
C7_Witness ==
    /\ IsJourney(log)
    /\ log[Len(log)].type = "DROP_TTL"
    /\ packet[1].ttl = 0

(***************************************************************************)
(* C8.  runSimulation: after the wiring of the chain R1-R2-R3, the three   *)
(* seeds and R1.advertiseRoutes(), R3.advertiseRoutes(),                   *)
(* R2.advertiseRoutes(), R1 has 192.168.3.0/24 via R2, R3 has              *)
(* 192.168.1.0/24 via R2, and each router's own prefix still names itself. *)
(***************************************************************************)
\* the position of the driver after its last advertiseRoutes call
AfterAdvertisement ==
    CHOOSE k \in 1..Len(Script) :
        /\ Script[k].op = "advertiseRoutes"
        /\ \A j \in (k + 1)..Len(Script) : Script[j].op # "advertiseRoutes"

C8_ChainTables ==
    (driver = "runSimulation" /\ pc >= AfterAdvertisement) =>
        /\ MapHas(routingTable["R1"], Lan(3)) /\ MapGet(routingTable["R1"], Lan(3)) = "R2"
        /\ MapHas(routingTable["R3"], Lan(1)) /\ MapGet(routingTable["R3"], Lan(1)) = "R2"
        /\ MapHas(routingTable["R1"], Lan(1)) /\ MapGet(routingTable["R1"], Lan(1)) = "R1"
        /\ MapHas(routingTable["R2"], Lan(2)) /\ MapGet(routingTable["R2"], Lan(2)) = "R2"
        /\ MapHas(routingTable["R3"], Lan(3)) /\ MapGet(routingTable["R3"], Lan(3)) = "R3"

\* the driver has just made its third advertiseRoutes call, on R2
C8_Witness ==
    /\ driver = "runSimulation" /\ pc = AfterAdvertisement
    /\ IsAdvertise(log) /\ log[1].router = "R2"

(***************************************************************************)
(* C9.  runSimulation: the packet from 192.168.1.10 to 192.168.3.15        *)
(* handed to R1 visits exactly R1, R2, R3 in that order, is delivered at   *)
(* R3, and has ttl = 29 at delivery.                                       *)
(***************************************************************************)
C9_ChainPacket ==
    (driver = "runSimulation" /\ pc = Len(Script)) =>
        /\ packet # <<>>
        /\ packet[1].sourceIp = <<192, 168, 1, 10>>
        /\ packet[1].destinationIp = <<192, 168, 3, 15>>
        /\ IsJourney(log)
        /\ Visited(log) = <<"R1", "R2", "R3">>
        /\ log[Len(log)].type = "DELIVER"
        /\ log[Len(log)].router = "R3"
        /\ log[Len(log)].ttl = 29
        /\ packet[1].ttl = 29

\* the driver's receivePacket call has returned
C9_Witness ==
    /\ driver = "runSimulation" /\ pc = Len(Script)
    /\ IsJourney(log) /\ log[1].router = "R1"

(***************************************************************************)
(* C10.  A fresh packet whose destination prefix is absent from the entry  *)
(* router's table is dropped for no route by the first receivePacket call, *)
(* and receivePacket is invoked on no other router.                        *)
(***************************************************************************)
C10_NoRouteDrop ==
    (/\ IsJourney(log)
     /\ log[1].ttl = 32
     /\ ~MapHas(routingTable[log[1].router], DestinationNetwork)) =>
        /\ Len(log) = 2
        /\ log[2].type = "DROP_NOROUTE"
        /\ log[2].router = log[1].router
        /\ Visited(log) = <<log[1].router>>

\* a fresh packet reached a router that has registered neighbors and routes,
\* but none for the packet's destination
C10_Witness ==
    /\ IsJourney(log)
    /\ log[1].ttl = 32
    /\ ~MapHas(routingTable[log[1].router], DestinationNetwork)
    /\ Len(routingTable[log[1].router]) >= 1
    /\ Len(neighbors[log[1].router]) >= 1
    /\ log[Len(log)].type = "DROP_NOROUTE"

(***************************************************************************)
(* C11.  A packet whose ttl is 1 when it is handed to a router that holds  *)
(* a route for its destination through a registered neighbor is dropped at *)
(* that router with ttl = 0, and the next hop's receivePacket is not       *)
(* invoked.                                                                *)
(***************************************************************************)
RouteViaNeighbor(R) ==
    /\ MapHas(routingTable[R], DestinationNetwork)
    /\ MapHas(neighbors[R], MapGet(routingTable[R], DestinationNetwork))

C11_TtlExhaustion ==
    IsJourney(log) =>
        \A i \in 1..Len(log) :
            (/\ log[i].type = "RECEIVE"
             /\ log[i].ttl = 1
             /\ RouteViaNeighbor(log[i].router)) =>
                /\ Len(log) = i + 1
                /\ log[i + 1].type = "DROP_TTL"
                /\ log[i + 1].router = log[i].router
                /\ log[i + 1].ttl = 0
                /\ packet[1].ttl = 0

\* a router that forwards the packet's destination to another registered
\* neighbor received the packet with ttl 1
C11_Witness ==
    /\ IsJourney(log)
    /\ \E i \in 1..Len(log) :
           /\ log[i].type = "RECEIVE"
           /\ log[i].ttl = 1
           /\ RouteViaNeighbor(log[i].router)
           /\ MapGet(routingTable[log[i].router], DestinationNetwork) # log[i].router

(***************************************************************************)
(* C12.  receivePacket never changes router state: over a whole packet     *)
(* journey, whatever its outcome, every routing table and every neighbor   *)
(* map is as before; of the packet only the ttl changes.                   *)
(***************************************************************************)
C12_Step ==
    IsJourney(log') =>
        /\ routingTable' = routingTable
        /\ neighbors' = neighbors
        /\ packet' = <<[packet[1] EXCEPT !.ttl = packet'[1].ttl]>>

C12_ReceivePacketFrame == [][C12_Step]_vars

\* a packet was forwarded by one router and dropped for no route by the next
C12_Witness ==
    /\ IsJourney(log)
    /\ CountType(log, "FORWARD") >= 1
    /\ log[Len(log)].type = "DROP_NOROUTE"
    /\ \E r \in Routers : routingTable[r] # <<>>

(***************************************************************************)
(* C13.  A.addNeighbor(B) adds B under B's id to A's neighbor map only:    *)
(* the neighbor map of B and of every other router and all routing tables  *)
(* are unchanged.                                                          *)
(***************************************************************************)
IsAddNeighbor(lg) == Len(lg) = 1 /\ lg[1].type = "INFO"

C13_Step ==
    IsAddNeighbor(log') =>
        LET A == log'[1].router
            B == log'[1].neighbor
        IN  /\ MapHas(neighbors'[A], B) /\ MapGet(neighbors'[A], B) = B
            /\ MapKeys(neighbors'[A]) = MapKeys(neighbors[A]) \cup {B}
            /\ \A o \in Routers \ {A} : neighbors'[o] = neighbors[o]
            /\ routingTable' = routingTable

C13_DirectionalRegistration == [][C13_Step]_vars

\* A registered B, and B does not have A as a neighbor
C13_Witness ==
    /\ IsAddNeighbor(log)
    /\ log[1].router # log[1].neighbor
    /\ MapHas(neighbors[log[1].router], log[1].neighbor)
    /\ ~MapHas(neighbors[log[1].neighbor], log[1].router)

(***************************************************************************)
(* C14.  As claimed: in every state reachable by addNeighbor,              *)
(* receiveRoutingUpdate and advertiseRoutes calls, receivePacket at router *)
(* R never invokes receivePacket on R itself.                              *)
(***************************************************************************)
C14_NoSelfForwarding ==
    IsJourney(log) =>
        \A i \in 1..Len(log) :
            log[i].type = "FORWARD" => log[i].to # log[i].router

(***************************************************************************)
(* Packets to arbitrary dotted quads handed to routers with empty tables:  *)
(* receivePacket computes the destination prefix and names it in its       *)
(* no-route line.                                                          *)
(***************************************************************************)
Octets == {0, 3, 15, 168, 192}

DottedQuads == {<<a, b, c, d>> : a \in Octets, b \in Octets, c \in Octets, d \in Octets}

PrefixNewPacket ==
    /\ Free
    /\ packet = <<>>
    /\ \E s \in Sources, d \in DottedQuads, c \in Contents : newPacket(s, d, c)

PrefixReceivePacket ==
    /\ Free
    /\ packet # <<>>
    /\ packet[1].ttl = InitialTtl
    /\ \E r \in Routers : receivePacket(r)

InitPrefix == Init /\ driver = "any"

NextPrefix == PrefixNewPacket \/ PrefixReceivePacket

SpecPrefix == InitPrefix /\ [][NextPrefix]_vars

(***************************************************************************)
(* The chain of runSimulation (links and seeds as the script sets them     *)
(* up), then advertiseRoutes calls on any routers in any order, then one   *)
(* fresh packet to an address of a seeded network handed to any router.    *)
(***************************************************************************)
SetupLen ==
    CHOOSE i \in 1..Len(Script) :
        /\ Script[i].op = "receiveRoutingUpdate"
        /\ \A j \in (i + 1)..Len(Script) : Script[j].op # "receiveRoutingUpdate"

Seeds == {i \in 1..SetupLen : Script[i].op = "receiveRoutingUpdate"}

ChainAddresses == {<<192, 168, 1, 10>>, <<192, 168, 2, 10>>, <<192, 168, 3, 15>>}

ChainReady == driver = "runSimulation" /\ pc = SetupLen /\ UNCHANGED <<driver, pc>>

ChainSetup == pc < SetupLen /\ runSimulation

ChainAdvertiseRoutes ==
    \E r \in Routers : ChainReady /\ packet = <<>> /\ advertiseRoutes(r)

ChainNewPacket ==
    \E s \in Sources, d \in ChainAddresses, c \in Contents :
        ChainReady /\ packet = <<>> /\ newPacket(s, d, c)

ChainReceivePacket ==
    \E r \in Routers :
        ChainReady /\ packet # <<>> /\ packet[1].ttl = InitialTtl /\ receivePacket(r)

InitChain == Init /\ driver = "runSimulation"

NextChain ==
    \/ ChainSetup
    \/ ChainAdvertiseRoutes
    \/ ChainNewPacket
    \/ ChainReceivePacket

SpecChain == InitChain /\ [][NextChain]_vars

(***************************************************************************)
(* A driver that registers links between distinct routers, seeds routers   *)
(* with entries naming themselves, and starts advertising only once every  *)
(* link is registered in both directions (pc = 1 from the first            *)
(* advertiseRoutes on; no link is added after it).                         *)
(***************************************************************************)
TwoWay == driver = "twoWay" /\ packet = <<>> /\ UNCHANGED driver

LinksBothWays ==
    \A a \in Routers, b \in Routers :
        MapHas(neighbors[a], b) => MapHas(neighbors[b], a)

TwoWayAddNeighbor ==
    \E r \in Routers, n \in Routers :
        TwoWay /\ pc = 0 /\ n # r /\ addNeighbor(r, n) /\ UNCHANGED pc

TwoWaySeed ==
    \E r \in Routers, p \in SeedPrefixes, m \in Metrics :
        TwoWay /\ receiveRoutingUpdate(r, p, r, m) /\ UNCHANGED pc

TwoWayAdvertiseRoutes ==
    \E r \in Routers :
        /\ TwoWay
        /\ pc = 0 => LinksBothWays
        /\ advertiseRoutes(r)
        /\ pc' = 1

TwoWayNewPacket ==
    \E s \in Sources, d \in Addresses, c \in Contents :
        TwoWay /\ newPacket(s, d, c) /\ UNCHANGED pc

TwoWayReceivePacket ==
    \E r \in Routers :
        /\ driver = "twoWay"
        /\ packet # <<>>
        /\ packet[1].ttl = InitialTtl
        /\ receivePacket(r)
        /\ UNCHANGED <<driver, pc>>

InitTwoWay ==
    /\ routingTable = [r \in Routers |-> <<>>]
    /\ neighbors = [r \in Routers |-> <<>>]
    /\ packet = <<>>
    /\ log = <<>>
    /\ driver = "twoWay"
    /\ pc = 0

NextTwoWay ==
    \/ TwoWayAddNeighbor
    \/ TwoWaySeed
    \/ TwoWayAdvertiseRoutes
    \/ TwoWayNewPacket
    \/ TwoWayReceivePacket

SpecTwoWay == InitTwoWay /\ [][NextTwoWay]_vars

(***************************************************************************)
(* C15.  The order in which advertiseRoutes walks the advertiser's         *)
(* prefixes and neighbors does not matter: every order gives every router  *)
(* the same routing table (as a mapping from prefix to next hop) and sends *)
(* the same set of (neighbor, prefix, advertiser) updates as the order the *)
(* code uses.                                                              *)
(***************************************************************************)
Orders(n) == {f \in [1..n -> 1..n] : \A a, b \in 1..n : f[a] = f[b] => a = b}

Mapping(table) == {<<table[i].key, table[i].val>> : i \in 1..Len(table)}

UpdatesSent(lg) ==
    {<<lg[i].router, lg[i].prefix, lg[i].via>> :
        i \in {k \in 1..Len(lg) : lg[k].type = "UPDATE"}}

C15_Step ==
    IsAdvertise(log') =>
        LET r == log'[1].router
        IN  \A pOrder \in Orders(Len(routingTable[r])),
               nOrder \in Orders(Len(neighbors[r])) :
                LET res == AdvertiseEntriesIn([rt |-> routingTable, log |-> <<>>],
                                              r, pOrder, nOrder, 1)
                IN  /\ \A o \in Routers :
                           Mapping(res.rt[o]) = Mapping(routingTable'[o])
                    /\ UpdatesSent(res.log) = UpdatesSent(log')

C15_OrderInsignificant == [][C15_Step]_vars

\* a router with three prefixes and two neighbors advertised, and one
\* neighbor learned two prefixes in that call
C15_Witness ==
    /\ IsAdvertise(log)
    /\ LET r == log[1].router
       IN  /\ Len(routingTable[r]) >= 3
           /\ Len(neighbors[r]) >= 2
           /\ \E n \in Routers :
                  Cardinality({k \in 2..Len(log) : log[k].router = n}) >= 2

(***************************************************************************)
(* C16.  getNetworkPrefix maps a.b.c.d to a.b.c.0/24 whatever d is: two    *)
(* addresses get the same prefix exactly when their first three octets     *)
(* agree, and 192.168.3.15 maps to 192.168.3.0/24.                         *)
(***************************************************************************)
C16_NetworkPrefix ==
    (IsJourney(log) /\ log[Len(log)].type = "DROP_NOROUTE") =>
        LET ip  == packet[1].destinationIp
            net == log[Len(log)].prefix
        IN  /\ net = [octets |-> <<ip[1], ip[2], ip[3], 0>>, mask |-> 24]
            /\ \A other \in DottedQuads :
                   (getNetworkPrefix(other) = net) <=>
                       (other[1] = ip[1] /\ other[2] = ip[2] /\ other[3] = ip[3])
            /\ ip = <<192, 168, 3, 15>> =>
                   net = [octets |-> <<192, 168, 3, 0>>, mask |-> 24]

\* the prefix of 192.168.3.15 was computed and is 192.168.3.0/24
C16_Witness ==
    /\ IsJourney(log)
    /\ log[Len(log)].type = "DROP_NOROUTE"
    /\ packet[1].destinationIp = <<192, 168, 3, 15>>
    /\ log[Len(log)].prefix.octets = <<192, 168, 3, 0>>

(***************************************************************************)
(* C17.  One advertiseRoutes call on R, R not being its own neighbor,      *)
(* changes only the routing tables of the routers in R's neighbor map: R's *)
(* own table, the tables of all other routers and every neighbor map are   *)
(* unchanged, and the call makes no router advertise in turn (its only     *)
(* effects are updates naming R, received by neighbors of R).              *)
(***************************************************************************)
C17_Step ==
    (IsAdvertise(log') /\ ~MapHas(neighbors[log'[1].router], log'[1].router)) =>
        LET R == log'[1].router
        IN  /\ routingTable'[R] = routingTable[R]
            /\ \A o \in Routers \ MapKeys(neighbors[R]) :
                   routingTable'[o] = routingTable[o]
            /\ neighbors' = neighbors
            /\ CountType(log', "ADVERTISE") = 1
            /\ \A i \in 2..Len(log') :
                   /\ log'[i].type = "UPDATE"
                   /\ log'[i].via = R
                   /\ log'[i].router \in MapKeys(neighbors[R])

C17_OneHopPropagation == [][C17_Step]_vars

\* R advertised to a neighbor while a third router, not a neighbor of R,
\* holds a route of its own
C17_Witness ==
    /\ IsAdvertise(log)
    /\ Len(log) >= 2
    /\ LET R == log[1].router
       IN  /\ ~MapHas(neighbors[R], R)
           /\ \E o \in Routers \ (MapKeys(neighbors[R]) \cup {R}) :
                  routingTable[o] # <<>>

(***************************************************************************)
(* C19.  advertiseRoutes is idempotent: right after R.advertiseRoutes(),   *)
(* R not being its own neighbor, a second R.advertiseRoutes() leaves every *)
(* router's routing table as the first call left it.                       *)
(***************************************************************************)
C19_AdvertiseIdempotent ==
    (IsAdvertise(log) /\ ~MapHas(neighbors[log[1].router], log[1].router)) =>
        AdvertiseResult(log[1].router).rt = routingTable

\* the first call sent an update and the second call would send one again
C19_Witness ==
    /\ IsAdvertise(log)
    /\ ~MapHas(neighbors[log[1].router], log[1].router)
    /\ Len(log) >= 2
    /\ Len(AdvertiseResult(log[1].router).log) >= 2

(***************************************************************************)
(* C18.  In the chain R1 - R2 - R3 with links both ways and each router    *)
(* seeded with its own /24, after any sequence of advertiseRoutes calls    *)
(* every router's entry for its own prefix still names itself, and a fresh *)
(* packet to a seeded prefix handed to any router is never dropped for TTL *)
(* expiry: it is delivered at the router that seeded the prefix or dropped *)
(* for lack of a route.                                                    *)
(***************************************************************************)
SeedingRouter(prefix) ==
    Script[CHOOSE i \in Seeds : Script[i].prefix = prefix].r

C18_ChainLoopFree ==
    (driver = "runSimulation" /\ pc = SetupLen) =>
        /\ \A i \in Seeds :
               /\ MapHas(routingTable[Script[i].r], Script[i].prefix)
               /\ MapGet(routingTable[Script[i].r], Script[i].prefix) = Script[i].r
        /\ IsJourney(log) =>
               /\ CountType(log, "DROP_TTL") = 0
               /\ \/ log[Len(log)].type = "DROP_NOROUTE"
                  \/ /\ log[Len(log)].type = "DELIVER"
                     /\ log[Len(log)].router = SeedingRouter(DestinationNetwork)

\* after advertisements a packet crossed the whole chain and was delivered
\* at the router that seeded the destination prefix
C18_Witness ==
    /\ driver = "runSimulation" /\ pc = SetupLen
    /\ IsJourney(log)
    /\ CountType(log, "FORWARD") >= 2
    /\ log[Len(log)].type = "DELIVER"
    /\ log[Len(log)].router = SeedingRouter(DestinationNetwork)

(***************************************************************************)
(* C20.  With every link registered in both directions before the first    *)
(* advertiseRoutes, no router its own neighbor and every seeded entry      *)
(* naming the seeding router: every entry that names another router names  *)
(* a registered neighbor of its holder, so a packet is delivered locally   *)
(* at R only when R's entry for the destination prefix names R itself.     *)
(***************************************************************************)
C20_DeliveryOnlyAtSeeded ==
    /\ \A r \in Routers : \A i \in 1..Len(routingTable[r]) :
           routingTable[r][i].val # r =>
               MapHas(neighbors[r], routingTable[r][i].val)
    /\ IsJourney(log) =>
           \A i \in 1..Len(log) :
               log[i].type = "DELIVER" =>
                   /\ MapHas(routingTable[log[i].router], DestinationNetwork)
                   /\ MapGet(routingTable[log[i].router], DestinationNetwork)
                          = log[i].router

\* a packet was forwarded along a learned entry and delivered at a router
\* whose entry names itself
C20_Witness ==
    /\ driver = "twoWay" /\ pc = 1
    /\ IsJourney(log)
    /\ CountType(log, "FORWARD") >= 1
    /\ log[Len(log)].type = "DELIVER"

====
